---- MODULE Spec2Model ----
(***************************************************************************)
(* pgBackRest server command: the accept / double-fork loop of cmdServer,  *)
(* the SIGHUP reload (cmdServerSigHup -> cmdServerInit) and the TLS server *)
(* object (tlsServerNew, tlsServerAccept, tlsServerAuth).                  *)
(*                                                                         *)
(* Process 0 is the supervisor.  Connection c (1..MaxConn) is handled by   *)
(* the child forked for it: the first fork (the intermediate) and the      *)
(* process forkDetach forks from it (the worker).  Both start from a copy  *)
(* of the supervisor's address space, kept per process in serverLocal,     *)
(* heap, socketServer and sessHandle.                                      *)
(***************************************************************************)
EXTENDS Integers, FiniteSets, TLC

\* Bounds of the model
MaxConn == 2
MaxReload == 2

\* tlsSessionNew(tlsSession, ioSession, 60000)
HandshakeTimeout == 60000
\* Largest configured protocol-timeout tried
MaxTimeout == 1830000

Sup == 0
Conns == 1..MaxConn
Procs == 0..MaxConn
CtxIds == 1..(MaxReload + 1)
NULL == 0
Timeouts == {HandshakeTimeout, MaxTimeout}
ArgList == 1

VARIABLES
    pc,             \* supervisor: position in cmdServer
    serverLocal,    \* per process: static struct ServerLocal
    heap,           \* per process: the TlsServer objects allocated in its address space
    nextCtx,        \* next TLS server object to allocate
    socketServer,   \* per process: the handle on the listening socket is open
    socketSession,  \* supervisor: the session ioServerAccept returned (NULL or a connection)
    sessHandle,     \* per process: raw sessions the process holds a handle on
    pid,            \* supervisor: result of forkSafe
    processStatus,  \* supervisor: status waitpid stored
    child,          \* per connection: the intermediate and the worker forked for it
    tlsSession,     \* per connection: the session tlsServerAccept returned
    errorOnSigTerm, \* exitErrorOnSigTerm setting
    sigHup,         \* cmdServerSigHup is installed for SIGHUP
    exitError,      \* the supervisor ended with this error ("none" when it did not)
    nConn,          \* connections accepted so far
    nReload,        \* reloads triggered so far
    lastReload      \* outcome of the latest reload: "none", "ok", "failed"

vars == <<pc, serverLocal, heap, nextCtx, socketServer, socketSession, sessHandle,
          pid, processStatus, child, tlsSession, errorOnSigTerm, sigHup, exitError, nConn,
          nReload, lastReload>>

NoCtx == [built |-> FALSE, timeout |-> 0, caFile |-> FALSE]
NoHeap == [i \in CtxIds |-> NoCtx]
NoServerLocal == [memContext |-> FALSE, argListSize |-> 0, argList |-> NULL, tlsServer |-> NULL]
NoSession == [open |-> FALSE, timeout |-> 0, authenticated |-> FALSE, server |-> NULL,
              clientCert |-> "none"]
NoChild == [ipc |-> "none", wpc |-> "none", reaped |-> FALSE, wparent |-> "none",
            acceptCtx |-> NULL, forkCtx |-> NULL, server |-> FALSE, remote |-> 0]

\* The record of a connection whose last process has ended
Ended(ch) == [ch EXCEPT !.acceptCtx = NULL, !.forkCtx = NULL, !.server = FALSE]

\* Positions of the supervisor inside the accept loop (lines 113-158)
LoopPcs == {"accept", "checkSession", "fork", "wait", "checkStatus", "free"}
\* Positions at which the supervisor has ended
EndPcs == {"error", "terminated"}

Init ==
    /\ pc = "init"
    /\ serverLocal = [p \in Procs |-> NoServerLocal]
    /\ heap = [p \in Procs |-> NoHeap]
    /\ nextCtx = 1
    /\ socketServer = [p \in Procs |-> FALSE]
    /\ socketSession = NULL
    /\ sessHandle = [p \in Procs |-> {}]
    /\ pid = 0
    /\ processStatus = "none"
    /\ child = [c \in Conns |-> NoChild]
    /\ tlsSession = [c \in Conns |-> NoSession]
    /\ errorOnSigTerm = TRUE
    /\ sigHup = FALSE
    /\ exitError = "none"
    /\ nConn = 0
    /\ nReload = 0
    /\ lastReload = "none"

(***************************************************************************)
(* TLS server object (common/io/tls/server.c)                              *)
(***************************************************************************)
\* State of the certificate and key files a context is built from
Materials == {"valid", "badCert", "badKey"}
\* tls-server-ca-file is set (a trust anchor is configured)
CaFiles == BOOLEAN
\* What the client presents in the handshake
ClientCerts == {"none", "valid", "invalid", "expired", "revoked"}
\* The daemon (Spec, LiveSpec) runs under one configuration, reloaded as it is,
\* with clients that present no certificate; TlsSpec runs the TLS server
\* object over all configurations and client certificates
DaemonCaFiles == {FALSE}
DaemonTimeouts == {MaxTimeout}
DaemonCerts == {"none"}
\* How the handshake inside tlsSessionNew ends
Handshakes == {"ok", "fail", "timeout"}

\* tlsServerNew: both cryptoError checks on the certificate and the key pass
tlsServerNewOk(material) == material = "valid"

\* tlsServerNew: the driver object; caFile is the trust anchor cmdServerInit passes
tlsServerNew(caFile, timeout) == [built |-> TRUE, timeout |-> timeout, caFile |-> caFile]

\* Faulty variant of tlsServerAuth: every session is reported authenticated
tlsServerAuthAlways(this, clientCert) == TRUE

\* tlsServerAuth: result is initialised to false and never assigned
tlsServerAuth(this, clientCert) == FALSE

\* tlsServerAccept: session opened by tlsSessionNew, then ioSessionAuthenticatedSet
tlsServerAccept(this, clientCert) ==
    [open |-> TRUE, timeout |-> HandshakeTimeout,
     authenticated |-> tlsServerAuth(this, clientCert), server |-> this,
     clientCert |-> clientCert]

(***************************************************************************)
(* Server command (command/server/server.c)                                *)
(***************************************************************************)
\* Faulty variant of HeapAfterFree: the old TLS server is not freed
HeapAfterFreeSkipped(p) == heap

\* Faulty variant of HeapAfterFree: the free reaches the copies the forked
\* processes hold, as it would between threads
HeapAfterFreeShared(p) ==
    [q \in Procs |-> [i \in CtxIds |->
        IF i = serverLocal[p].tlsServer THEN NoCtx ELSE heap[q][i]]]

\* cmdServerInit, ioServerFree(serverLocal.tlsServer) run by process p: the
\* object is freed in the address space of p only (freeing NULL does nothing)
HeapAfterFree(p) ==
    [q \in Procs |-> [i \in CtxIds |->
        IF q = p /\ i = serverLocal[p].tlsServer THEN NoCtx ELSE heap[q][i]]]

\* cmdServerInit run by the supervisor with the configuration cfgLoad left:
\* free the old TLS server, then create the new one; a cryptoError raised in
\* tlsServerNew leaves serverLocal.tlsServer pointing at the freed server
cmdServerInit(material, caFile, timeout) ==
    IF tlsServerNewOk(material)
    THEN /\ serverLocal' = [serverLocal EXCEPT ![Sup].memContext = TRUE,
                                                ![Sup].tlsServer = nextCtx]
         /\ heap' = [HeapAfterFree(Sup) EXCEPT ![Sup][nextCtx] = tlsServerNew(caFile, timeout)]
         /\ nextCtx' = nextCtx + 1
    ELSE /\ serverLocal' = [serverLocal EXCEPT ![Sup].memContext = TRUE]
         /\ heap' = HeapAfterFree(Sup)
         /\ UNCHANGED nextCtx

\* An error or a terminate signal leaves cmdServer: its locals and the temp
\* mem context of line 101 (listening socket, accepted session) are released;
\* the static serverLocal stays as the code left it
Leave(to, error) ==
    /\ pc' = to
    /\ exitError' = error
    /\ socketSession' = NULL
    /\ pid' = 0
    /\ processStatus' = "none"
    /\ sessHandle' = [sessHandle EXCEPT ![Sup] = {}]
    /\ socketServer' = [socketServer EXCEPT ![Sup] = FALSE]

\* Faulty variant of SupInit: the error cmdServerInit raises is caught and
\* cmdServer goes on
SupInitCaught ==
    /\ pc = "init"
    /\ \E material \in Materials, caFile \in DaemonCaFiles, timeout \in DaemonTimeouts :
          cmdServerInit(material, caFile, timeout)
    /\ pc' = "setArgs"
    /\ UNCHANGED <<exitError, socketSession, pid, processStatus, sessHandle, socketServer,
                   child, tlsSession, errorOnSigTerm, sigHup, nConn, nReload, lastReload>>

\* cmdServer, line 95: initialize server; an error leaves cmdServer
SupInit ==
    /\ pc = "init"
    /\ \E material \in Materials, caFile \in DaemonCaFiles, timeout \in DaemonTimeouts :
          /\ cmdServerInit(material, caFile, timeout)
          /\ IF tlsServerNewOk(material)
             THEN /\ pc' = "setArgs"
                  /\ UNCHANGED <<exitError, socketSession, pid, processStatus, sessHandle,
                                 socketServer>>
             ELSE Leave("error", "CryptoError")
    /\ UNCHANGED <<child, tlsSession, errorOnSigTerm, sigHup, nConn, nReload, lastReload>>

\* Faulty variant of SupSetArgs: the arguments are not stored
SupSetArgsSkipped ==
    /\ pc = "setArgs"
    /\ pc' = "sckServerNew"
    /\ UNCHANGED <<serverLocal, heap, nextCtx, socketServer, socketSession, sessHandle, pid,
                   processStatus, child, tlsSession, errorOnSigTerm, sigHup, exitError, nConn,
                   nReload, lastReload>>

\* cmdServer, lines 98-99: set arguments used for reload
SupSetArgs ==
    /\ pc = "setArgs"
    /\ serverLocal' = [serverLocal EXCEPT ![Sup].argListSize = 1, ![Sup].argList = ArgList]
    /\ pc' = "sckServerNew"
    /\ UNCHANGED <<heap, nextCtx, socketServer, socketSession, sessHandle, pid,
                   processStatus, child, tlsSession, errorOnSigTerm, sigHup, exitError, nConn,
                   nReload, lastReload>>

\* cmdServer, line 103: create the listening socket
SupSckServerNew ==
    /\ pc = "sckServerNew"
    /\ socketServer' = [socketServer EXCEPT ![Sup] = TRUE]
    /\ pc' = "sigTermOff"
    /\ UNCHANGED <<serverLocal, heap, nextCtx, socketSession, sessHandle, pid,
                   processStatus, child, tlsSession, errorOnSigTerm, sigHup, exitError, nConn,
                   nReload, lastReload>>

\* Faulty variant of SupSigTermOff: error-on-terminate is left as it was
SupSigTermOffSkipped ==
    /\ pc = "sigTermOff"
    /\ pc' = "signal"
    /\ UNCHANGED <<serverLocal, heap, nextCtx, socketServer, socketSession,
                   sessHandle, pid, processStatus, child, tlsSession, errorOnSigTerm, sigHup,
                   exitError, nConn, nReload, lastReload>>

\* cmdServer, line 107: do not error when exiting on SIGTERM
SupSigTermOff ==
    /\ pc = "sigTermOff"
    /\ errorOnSigTerm' = FALSE
    /\ pc' = "signal"
    /\ UNCHANGED <<serverLocal, heap, nextCtx, socketServer, socketSession,
                   sessHandle, pid, processStatus, child, tlsSession, sigHup, exitError, nConn,
                   nReload, lastReload>>

\* cmdServer, line 110: install cmdServerSigHup
SupSignal ==
    /\ pc = "signal"
    /\ sigHup' = TRUE
    /\ pc' = "accept"
    /\ UNCHANGED <<serverLocal, heap, nextCtx, socketServer, socketSession,
                   sessHandle, pid, processStatus, child, tlsSession, errorOnSigTerm, exitError,
                   nConn, nReload, lastReload>>

\* Final positions of the process forked first, as waitpid reports them
Exited == {"exit0", "exitErr", "killed"}

\* Faulty variant of WaitReady: the wait also covers the worker of the connection
WaitReadyWorker(c) ==
    /\ child[c].ipc \in Exited
    /\ child[c].wpc \notin {"protocolServer", "protocolServerReturn", "cmdRemote"}

\* waitpid(pid, &processStatus, 0) returns once the process forked first has ended
WaitReady(c) == child[c].ipc \in Exited

\* Faulty variant of AfterFork: the parent does not wait for the process it forked
AfterForkNoWait == "free"

\* cmdServer, lines 143-148: the parent goes on to wait for the first fork
AfterFork == "wait"

\* cmdServer, line 116: accept a new connection (NULL when none came)
SupAccept ==
    /\ pc = "accept"
    /\ \E s \in {NULL} \cup (IF nConn < MaxConn THEN {nConn + 1} ELSE {}) :
          /\ socketSession' = s
          /\ IF s # NULL
             THEN /\ nConn' = nConn + 1
                  /\ sessHandle' = [sessHandle EXCEPT ![Sup] = @ \cup {s}]
                  /\ child' = [child EXCEPT ![s].acceptCtx = serverLocal[Sup].tlsServer]
             ELSE UNCHANGED <<nConn, sessHandle, child>>
    /\ pc' = "checkSession"
    /\ UNCHANGED <<serverLocal, heap, nextCtx, socketServer, pid, processStatus,
                   tlsSession, errorOnSigTerm, sigHup, exitError, nReload, lastReload>>

\* Faulty variant of SupCheckSession: the loop condition is the session, so
\* an accept that returned NULL ends the loop and cmdServer returns
SupCheckSessionReturns ==
    /\ pc = "checkSession"
    /\ pc' = IF socketSession # NULL THEN "fork" ELSE "returned"
    /\ UNCHANGED <<serverLocal, heap, nextCtx, socketServer, socketSession,
                   sessHandle, pid, processStatus, child, tlsSession, errorOnSigTerm, sigHup,
                   exitError, nConn, nReload, lastReload>>

\* cmdServer, line 118: if (socketSession != NULL)
SupCheckSession ==
    /\ pc = "checkSession"
    /\ pc' = IF socketSession # NULL THEN "fork" ELSE "accept"
    /\ UNCHANGED <<serverLocal, heap, nextCtx, socketServer, socketSession,
                   sessHandle, pid, processStatus, child, tlsSession, errorOnSigTerm, sigHup,
                   exitError, nConn, nReload, lastReload>>

\* cmdServer, line 121: forkSafe; the child starts from a copy of the parent's
\* address space and handles
SupFork ==
    /\ pc = "fork"
    /\ pid' = socketSession
    /\ serverLocal' = [serverLocal EXCEPT ![socketSession] = serverLocal[Sup]]
    /\ heap' = [heap EXCEPT ![socketSession] = heap[Sup]]
    /\ socketServer' = [socketServer EXCEPT ![socketSession] = socketServer[Sup]]
    /\ sessHandle' = [sessHandle EXCEPT ![socketSession] = sessHandle[Sup]]
    /\ child' = [child EXCEPT ![socketSession].ipc = "closeServer",
                              ![socketSession].forkCtx = serverLocal[Sup].tlsServer]
    /\ pc' = AfterFork
    /\ UNCHANGED <<nextCtx, socketSession, processStatus, tlsSession, errorOnSigTerm,
                   sigHup, exitError, nConn, nReload, lastReload>>

\* cmdServer, line 121: forkSafe cannot fork and raises an error in the parent
SupForkFail ==
    /\ pc = "fork"
    /\ Leave("error", "ExecuteError")
    /\ child' = [child EXCEPT ![socketSession] = Ended(@)]
    /\ UNCHANGED <<serverLocal, heap, nextCtx, tlsSession, errorOnSigTerm, sigHup, nConn,
                   nReload, lastReload>>

\* cmdServer, line 148: wait for the first fork to exit
SupWait ==
    /\ pc = "wait"
    /\ WaitReady(pid)
    /\ processStatus' = child[pid].ipc
    /\ child' = [child EXCEPT ![pid].reaped = TRUE]
    /\ pc' = "checkStatus"
    /\ UNCHANGED <<serverLocal, heap, nextCtx, socketServer, socketSession,
                   sessHandle, pid, tlsSession, errorOnSigTerm, sigHup, exitError, nConn,
                   nReload, lastReload>>

\* Faulty variant of SupWaitFail: the result of waitpid is not looked at
SupWaitFailIgnored ==
    /\ pc = "wait"
    /\ pc' = "checkStatus"
    /\ UNCHANGED <<serverLocal, heap, nextCtx, socketServer, socketSession, sessHandle, pid,
                   processStatus, child, tlsSession, errorOnSigTerm, sigHup, exitError, nConn,
                   nReload, lastReload>>

\* cmdServer, line 148: waitpid returns -1, THROW_ON_SYS_ERROR raises ExecuteError
SupWaitFail ==
    /\ pc = "wait"
    /\ Leave("error", "ExecuteError")
    /\ UNCHANGED <<serverLocal, heap, nextCtx, child, tlsSession, errorOnSigTerm, sigHup,
                   nConn, nReload, lastReload>>

\* Faulty variant of SupCheckStatus: only WIFEXITED is checked
SupCheckStatusExitedOnly ==
    /\ pc = "checkStatus"
    /\ IF processStatus \in {"exit0", "exitErr"}
       THEN /\ pc' = "free"
            /\ UNCHANGED <<exitError, socketSession, pid, processStatus, sessHandle,
                           socketServer>>
       ELSE Leave("error", "AssertError")
    /\ UNCHANGED <<serverLocal, heap, nextCtx, child, tlsSession, errorOnSigTerm, sigHup,
                   nConn, nReload, lastReload>>

\* cmdServer, line 151: CHECK(WIFEXITED(processStatus) && WEXITSTATUS(processStatus) == 0)
SupCheckStatus ==
    /\ pc = "checkStatus"
    /\ IF processStatus = "exit0"
       THEN /\ pc' = "free"
            /\ UNCHANGED <<exitError, socketSession, pid, processStatus, sessHandle,
                           socketServer>>
       ELSE Leave("error", "AssertError")
    /\ UNCHANGED <<serverLocal, heap, nextCtx, child, tlsSession, errorOnSigTerm, sigHup,
                   nConn, nReload, lastReload>>

\* Faulty variant of SupFree: the accepted session is not freed
SupFreeSkipped ==
    /\ pc = "free"
    /\ pc' = "accept"
    /\ UNCHANGED <<serverLocal, heap, nextCtx, socketServer, socketSession, sessHandle, pid,
                   processStatus, child, tlsSession, errorOnSigTerm, sigHup, exitError, nConn,
                   nReload, lastReload>>

\* cmdServer, line 155: free the socket since the child is now using it, loop
SupFree ==
    /\ pc = "free"
    /\ sessHandle' = [sessHandle EXCEPT ![Sup] = @ \ {socketSession}]
    /\ socketSession' = NULL
    /\ pc' = "accept"
    /\ UNCHANGED <<serverLocal, heap, nextCtx, socketServer, pid, processStatus,
                   child, tlsSession, errorOnSigTerm, sigHup, exitError, nConn, nReload,
                   lastReload>>

\* Faulty variant of cmdServerSigHup: after the reload the supervisor starts
\* the loop again from accept, dropping what it was doing
cmdServerSigHupRestarts ==
    /\ sigHup
    /\ pc \in LoopPcs
    /\ nReload < MaxReload
    /\ nReload' = nReload + 1
    /\ \E material \in Materials, caFile \in DaemonCaFiles, timeout \in DaemonTimeouts :
          /\ cmdServerInit(material, caFile, timeout)
          /\ lastReload' = IF tlsServerNewOk(material) THEN "ok" ELSE "failed"
          /\ IF tlsServerNewOk(material)
             THEN /\ pc' = "accept"
                  /\ UNCHANGED <<exitError, socketSession, pid, processStatus, sessHandle,
                                 socketServer>>
             ELSE Leave("error", "CryptoError")
    /\ UNCHANGED <<child, tlsSession, errorOnSigTerm, sigHup, nConn>>

\* cmdServerSigHup, run when SIGHUP reaches the supervisor at any point after
\* signal(): cfgLoad re-derives the configuration, cmdServerInit rebuilds the
\* TLS server; the error tlsServerNew raises is caught nowhere in cmdServer
cmdServerSigHup ==
    /\ sigHup
    /\ pc \in LoopPcs
    /\ nReload < MaxReload
    /\ nReload' = nReload + 1
    /\ \E material \in Materials, caFile \in DaemonCaFiles, timeout \in DaemonTimeouts :
          /\ cmdServerInit(material, caFile, timeout)
          /\ lastReload' = IF tlsServerNewOk(material) THEN "ok" ELSE "failed"
          /\ IF tlsServerNewOk(material)
             THEN UNCHANGED <<pc, exitError, socketSession, pid, processStatus, sessHandle,
                              socketServer>>
             ELSE Leave("error", "CryptoError")
    /\ UNCHANGED <<child, tlsSession, errorOnSigTerm, sigHup, nConn>>

\* SIGTERM reaches the supervisor: the process exits, with an error only while
\* error-on-terminate is on
SigTerm ==
    /\ pc \notin EndPcs
    /\ Leave("terminated", IF errorOnSigTerm THEN "TermError" ELSE exitError)
    /\ UNCHANGED <<serverLocal, heap, nextCtx, child, tlsSession, errorOnSigTerm, sigHup,
                   nConn, nReload, lastReload>>

(***************************************************************************)
(* The child of the first fork (lines 123-141) and the worker forkDetach   *)
(* forks from it                                                           *)
(***************************************************************************)
\* Faulty variant of ProtocolServerArg: the worker reads the supervisor's serverLocal
ProtocolServerArgShared(c) == serverLocal[Sup].tlsServer

\* Faulty variant of InvokeRemote: cmdRemote is run whatever protocolServer returned
InvokeRemoteAlways(server) == TRUE

\* Faulty variant of AfterRemote: without the break the child goes round the loop
AfterRemoteNoBreak == "accept"

\* cmdServer, line 135: the TLS server the child passes to protocolServer
ProtocolServerArg(c) == serverLocal[c].tlsServer

\* cmdServer, line 137: if (server != NULL)
InvokeRemote(server) == server

\* cmdServer, line 140: break leaves the accept loop
AfterRemote == "returned"

\* Faulty variant of ChildCloseServer: the child keeps the listening socket
ChildCloseServerSkipped(c) ==
    /\ child[c].ipc = "closeServer"
    /\ child' = [child EXCEPT ![c].ipc = "logClose"]
    /\ UNCHANGED <<pc, serverLocal, heap, nextCtx, socketServer, socketSession, sessHandle,
                   pid, processStatus, tlsSession, errorOnSigTerm, sigHup, exitError, nConn,
                   nReload, lastReload>>

\* cmdServer, line 126: close the server socket
ChildCloseServer(c) ==
    /\ child[c].ipc = "closeServer"
    /\ socketServer' = [socketServer EXCEPT ![c] = FALSE]
    /\ child' = [child EXCEPT ![c].ipc = "logClose"]
    /\ UNCHANGED <<pc, serverLocal, heap, nextCtx, socketSession, sessHandle, pid,
                   processStatus, tlsSession, errorOnSigTerm, sigHup, exitError, nConn, nReload,
                   lastReload>>

\* cmdServer, line 129: disable logging and close log file
ChildLogClose(c) ==
    /\ child[c].ipc = "logClose"
    /\ child' = [child EXCEPT ![c].ipc = "forkDetach"]
    /\ UNCHANGED <<pc, serverLocal, heap, nextCtx, socketServer, socketSession,
                   sessHandle, pid, processStatus, tlsSession, errorOnSigTerm, sigHup,
                   exitError, nConn, nReload, lastReload>>

\* The last process of connection c ends: its address space and handles go
ProcessExit(c) ==
    /\ serverLocal' = [serverLocal EXCEPT ![c] = NoServerLocal]
    /\ heap' = [heap EXCEPT ![c] = NoHeap]
    /\ socketServer' = [socketServer EXCEPT ![c] = FALSE]
    /\ sessHandle' = [sessHandle EXCEPT ![c] = {}]
    /\ tlsSession' = [tlsSession EXCEPT ![c] = NoSession]

\* cmdServer, line 132: forkDetach forks the worker, which goes on to line 135;
\* the process forked first is left to exit. An error in forkDetach ends the
\* process forked first with a failure status and no worker.
ChildForkDetach(c) ==
    /\ child[c].ipc = "forkDetach"
    /\ \E ok \in BOOLEAN :
          IF ok
          THEN /\ child' = [child EXCEPT ![c].ipc = "exit", ![c].wpc = "protocolServer",
                                         ![c].wparent = "intermediate"]
               /\ UNCHANGED <<serverLocal, heap, socketServer, sessHandle, tlsSession>>
          ELSE /\ child' = [child EXCEPT ![c] = Ended([@ EXCEPT !.ipc = "exitErr"])]
               /\ ProcessExit(c)
    /\ UNCHANGED <<pc, nextCtx, socketSession, pid, processStatus, errorOnSigTerm, sigHup,
                   exitError, nConn, nReload, lastReload>>

\* forkDetach: the process forked first exits with status 0; the worker is
\* left without a parent in the daemon
ChildExit(c) ==
    /\ child[c].ipc = "exit"
    /\ child' = [child EXCEPT ![c].ipc = "exit0", ![c].wparent = "init"]
    /\ UNCHANGED <<pc, serverLocal, heap, nextCtx, socketServer, socketSession,
                   sessHandle, pid, processStatus, tlsSession, errorOnSigTerm, sigHup,
                   exitError, nConn, nReload, lastReload>>

\* A signal kills the process forked first before it has exited
ChildKilled(c) ==
    /\ child[c].ipc \in {"closeServer", "logClose", "forkDetach", "exit"}
    /\ IF child[c].wpc = "none"
       THEN /\ child' = [child EXCEPT ![c] = Ended([@ EXCEPT !.ipc = "killed"])]
            /\ ProcessExit(c)
       ELSE /\ child' = [child EXCEPT ![c].ipc = "killed", ![c].wparent = "init"]
            /\ UNCHANGED <<serverLocal, heap, socketServer, sessHandle, tlsSession>>
    /\ UNCHANGED <<pc, nextCtx, socketSession, pid, processStatus, errorOnSigTerm, sigHup,
                   exitError, nConn, nReload, lastReload>>

\* cmdServer, line 135 in the worker: protocolServer starts TLS on the raw
\* session with ioServerAccept, that is tlsServerAccept. A handshake that fails
\* or times out raises an error in tlsSessionNew, which ends the worker.
WorkerTlsAccept(c) ==
    /\ child[c].wpc = "protocolServer"
    /\ \E handshake \in Handshakes, clientCert \in DaemonCerts :
          IF handshake = "ok"
          THEN /\ tlsSession' = [tlsSession EXCEPT
                                    ![c] = tlsServerAccept(ProtocolServerArg(c), clientCert)]
               /\ child' = [child EXCEPT ![c].wpc = "protocolServerReturn"]
               /\ UNCHANGED <<serverLocal, heap, socketServer, sessHandle>>
          ELSE /\ child' = [child EXCEPT ![c] = Ended([@ EXCEPT !.wpc = "error"])]
               /\ ProcessExit(c)
    /\ UNCHANGED <<pc, nextCtx, socketSession, pid, processStatus, errorOnSigTerm, sigHup,
                   exitError, nConn, nReload, lastReload>>

\* cmdServer, lines 135-140 in the worker: protocolServer returns a protocol
\* server or NULL; with NULL the worker breaks at once
WorkerProtocolServer(c) ==
    /\ child[c].wpc = "protocolServerReturn"
    /\ \E server \in BOOLEAN :
          IF InvokeRemote(server)
          THEN /\ child' = [child EXCEPT ![c].server = server, ![c].wpc = "cmdRemote"]
               /\ UNCHANGED <<serverLocal, heap, socketServer, sessHandle, tlsSession>>
          ELSE /\ child' = [child EXCEPT ![c] = Ended([@ EXCEPT !.wpc = AfterRemote])]
               /\ ProcessExit(c)
    /\ UNCHANGED <<pc, nextCtx, socketSession, pid, processStatus, errorOnSigTerm, sigHup,
                   exitError, nConn, nReload, lastReload>>

\* cmdServer, lines 138-140 in the worker: cmdRemote(server) returns, break
WorkerRemote(c) ==
    /\ child[c].wpc = "cmdRemote"
    /\ child' = [child EXCEPT ![c] = Ended([@ EXCEPT !.remote = @ + 1, !.wpc = AfterRemote])]
    /\ ProcessExit(c)
    /\ UNCHANGED <<pc, nextCtx, socketSession, pid, processStatus, errorOnSigTerm, sigHup,
                   exitError, nConn, nReload, lastReload>>

SupStep ==
    \/ SupInit
    \/ SupSetArgs
    \/ SupSckServerNew
    \/ SupSigTermOff
    \/ SupSignal
    \/ SupAccept
    \/ SupCheckSession
    \/ SupFork
    \/ SupWait
    \/ SupCheckStatus
    \/ SupFree

InterStep(c) ==
    \/ ChildCloseServer(c)
    \/ ChildLogClose(c)
    \/ ChildForkDetach(c)
    \/ ChildExit(c)

Next ==
    \/ SupStep
    \/ SupForkFail
    \/ SupWaitFail
    \/ cmdServerSigHup
    \/ SigTerm
    \/ \E c \in Conns : InterStep(c)
    \/ \E c \in Conns : ChildKilled(c)
    \/ \E c \in Conns : WorkerTlsAccept(c)
    \/ \E c \in Conns : WorkerProtocolServer(c)
    \/ \E c \in Conns : WorkerRemote(c)

Spec == Init /\ [][Next]_vars

\* The supervisor and the process forked first run whenever they can; nothing
\* is assumed of the workers, of signals or of system call failures
LiveSpec == Spec /\ WF_vars(SupStep) /\ \A c \in Conns : WF_vars(InterStep(c))

(***************************************************************************)
(* The TLS server object on its own: tlsServerNew and tlsServerAccept      *)
(* applied to every configuration, client certificate and handshake        *)
(* outcome, one session at a time                                          *)
(***************************************************************************)
\* cmdServerInit / tlsServerNew with any configuration: the first build and
\* every rebuild
TlsServerNewStep ==
    /\ pc \in {"init", "tls"}
    /\ nextCtx \in CtxIds
    /\ \E material \in Materials, caFile \in CaFiles, timeout \in Timeouts :
          /\ cmdServerInit(material, caFile, timeout)
          /\ IF tlsServerNewOk(material)
             THEN /\ pc' = "tls"
                  /\ UNCHANGED <<exitError, socketSession, pid, processStatus, sessHandle,
                                 socketServer>>
             ELSE Leave("error", "CryptoError")
    /\ UNCHANGED <<child, tlsSession, errorOnSigTerm, sigHup, nConn, nReload, lastReload>>

\* tlsServerAccept run for connection c on a copy of the current TLS server,
\* as the process forked for c runs it
TlsServerAcceptStep(c) ==
    /\ pc = "tls"
    /\ c = nConn + 1
    /\ \A d \in Conns : ~tlsSession[d].open
    /\ nConn' = c
    /\ serverLocal' = [serverLocal EXCEPT ![c] = serverLocal[Sup]]
    /\ heap' = [heap EXCEPT ![c] = heap[Sup]]
    /\ \E handshake \in Handshakes, clientCert \in ClientCerts :
          tlsSession' = IF handshake = "ok"
                        THEN [tlsSession EXCEPT
                                 ![c] = tlsServerAccept(serverLocal[Sup].tlsServer, clientCert)]
                        ELSE tlsSession
    /\ UNCHANGED <<pc, nextCtx, socketServer, socketSession, sessHandle, pid, processStatus,
                   child, errorOnSigTerm, sigHup, exitError, nReload, lastReload>>

\* The session of connection c ends with the process that held it
TlsSessionFree(c) ==
    /\ pc = "tls"
    /\ tlsSession[c].open
    /\ tlsSession' = [tlsSession EXCEPT ![c] = NoSession]
    /\ serverLocal' = [serverLocal EXCEPT ![c] = NoServerLocal]
    /\ heap' = [heap EXCEPT ![c] = NoHeap]
    /\ UNCHANGED <<pc, nextCtx, socketServer, socketSession, sessHandle, pid, processStatus,
                   child, errorOnSigTerm, sigHup, exitError, nConn, nReload, lastReload>>

TlsNext ==
    \/ TlsServerNewStep
    \/ \E c \in Conns : TlsServerAcceptStep(c)
    \/ \E c \in Conns : TlsSessionFree(c)

TlsSpec == Init /\ [][TlsNext]_vars

(***************************************************************************)
(* Properties                                                              *)
(***************************************************************************)
\* Positions of a worker that has not ended
WorkerLive == {"protocolServer", "protocolServerReturn", "cmdRemote"}

\* C1: after every connection accept returned, the supervisor is at accept
\* again (or has been ended by a signal or by an error of fork, wait or reload)
\* whatever the handshake of that connection does and whether or not its
\* worker still runs: no step of a worker is needed for it.
C1_ReturnsToListening ==
    \A n \in Conns :
        (pc = "fork" /\ socketSession = n) ~> (pc = "accept" \/ pc \in EndPcs)

\* C1 witness: two connections were accepted, the handshake of the first one
\* failed, the worker of the second has not finished its handshake, and the
\* supervisor is at accept again.
C1_Witness ==
    /\ pc = "accept"
    /\ nConn = 2
    /\ child[1].wpc = "error"
    /\ child[2].wpc = "protocolServer"
    /\ child[2].reaped

\* C2 (as claimed): after a reload whose tlsServerNew failed, the TLS server
\* serverLocal.tlsServer points at is still allocated and the supervisor is
\* still in the accept loop.
C2_FailedReloadKeepsContext ==
    lastReload = "failed" =>
        /\ serverLocal[Sup].tlsServer # NULL
        /\ heap[Sup][serverLocal[Sup].tlsServer].built
        /\ pc \in LoopPcs

\* C3: at every position of the accept loop serverLocal.tlsServer points at a
\* fully built TLS server that is allocated, and it is the only one allocated
\* in the supervisor.
C3_OneActiveContext ==
    pc \in LoopPcs =>
        /\ serverLocal[Sup].tlsServer # NULL
        /\ {i \in CtxIds : heap[Sup][i].built} = {serverLocal[Sup].tlsServer}

\* C3 witness: the supervisor is about to fork for an accepted connection
\* after a reload that succeeded.
C3_Witness ==
    /\ pc = "fork"
    /\ lastReload = "ok"
    /\ serverLocal[Sup].tlsServer = 2
    /\ nConn = 2

\* C4: a worker that has not ended still points at the TLS server that was
\* active when its process was forked, and that server is still allocated,
\* with the fields it was built with, in the worker's address space.
C4_WorkerKeepsContext ==
    \A c \in Conns :
        child[c].wpc \in WorkerLive =>
            /\ child[c].forkCtx # NULL
            /\ serverLocal[c].tlsServer = child[c].forkCtx
            /\ heap[c][child[c].forkCtx].built

\* C4 witness: a worker is in protocol processing on a TLS server that the
\* supervisor has freed and replaced since the fork.
C4_Witness ==
    \E c \in Conns :
        /\ child[c].wpc = "cmdRemote"
        /\ lastReload = "ok"
        /\ serverLocal[Sup].tlsServer # child[c].forkCtx
        /\ ~heap[Sup][child[c].forkCtx].built
        /\ heap[c][child[c].forkCtx].built

\* C5 (as claimed): a session is never established with a TLS server other
\* than the one that was active when accept returned its connection.
C5_ContextOfAccept ==
    \A c \in Conns :
        tlsSession[c].open => tlsSession[c].server = child[c].acceptCtx

\* C5 (amended): a session is established with the TLS server that was active
\* when the process for its connection was forked.
C5_ContextOfFork ==
    \A c \in Conns :
        tlsSession[c].open => tlsSession[c].server = child[c].forkCtx

\* C5 witness: a session established for a connection whose fork came before
\* the swap: the supervisor now has another TLS server.
C5_Witness ==
    \E c \in Conns :
        /\ tlsSession[c].open
        /\ child[c].acceptCtx = child[c].forkCtx
        /\ serverLocal[Sup].tlsServer # child[c].forkCtx
        /\ pc \in LoopPcs

\* C6: no forked process is ever at a position of the accept loop; a child
\* holds a handle on the session of its own connection only and runs cmdRemote
\* at most once.
C6_ChildLeavesLoop ==
    \A c \in Conns :
        /\ child[c].ipc \notin LoopPcs
        /\ child[c].wpc \notin LoopPcs
        /\ sessHandle[c] \subseteq {c}
        /\ child[c].remote <= 1

\* C6 witness: one worker has left after cmdRemote returned and another after
\* protocolServer returned NULL.
C6_Witness ==
    \E c, d \in Conns :
        /\ child[c].wpc = "returned" /\ child[c].remote = 1
        /\ child[d].wpc = "returned" /\ child[d].remote = 0

\* C7: whenever the supervisor is at accept, every process it forked has ended
\* and has been waited on, and a worker whose intermediate has ended is no
\* child of the supervisor.
C7_NoUnreapedChild ==
    /\ pc = "accept" =>
          \A c \in Conns :
              child[c].ipc # "none" => (child[c].ipc \in Exited /\ child[c].reaped)
    /\ \A c \in Conns :
          (child[c].ipc \in Exited /\ child[c].wpc # "none") => child[c].wparent = "init"

\* C7 witness: the supervisor is at accept after two connections whose
\* intermediates were waited on while a worker still runs.
C7_Witness ==
    /\ pc = "accept"
    /\ nConn = 2
    /\ \A c \in Conns : c <= 2 => child[c].reaped
    /\ \E c \in Conns : child[c].wpc = "cmdRemote"

C9_ServerOnlyAuthenticated ==
    \A c \in Conns :
        (/\ tlsSession[c].open
         /\ tlsSession[c].clientCert = "none"
         /\ ~heap[c][tlsSession[c].server].caFile) => tlsSession[c].authenticated

C11_HandshakeUnderContextTimeout ==
    \A c \in Conns :
        tlsSession[c].open =>
            tlsSession[c].timeout = heap[c][tlsSession[c].server].timeout

\* C12: a tlsServerNew that raises on the certificate or the key leaves no TLS
\* server built in the supervisor and ends it with that error; as long as no
\* TLS server has ever been built (the first cmdServerInit has not passed) no
\* listening socket exists in any process, cmdServerSigHup is not installed
\* and no connection has been accepted.
C12_FailedContextNeverActive ==
    /\ exitError = "CryptoError" =>
          /\ pc = "error"
          /\ \A i \in CtxIds : ~heap[Sup][i].built
    /\ nextCtx = 1 =>
          /\ pc \in {"init"} \cup EndPcs
          /\ serverLocal[Sup].tlsServer = NULL
          /\ \A p \in Procs : ~socketServer[p]
          /\ ~sigHup
          /\ nConn = 0

\* C12 witness: the daemon has ended at start on a certificate or key that
\* did not load.
C12_Witness ==
    /\ pc = "error"
    /\ exitError = "CryptoError"
    /\ nextCtx = 1
    /\ lastReload = "none"

\* C13: the supervisor goes on from the status check to free the session only
\* when the first fork exited with status 0; with any other status (non-zero
\* exit, killed by a signal) its next move is to end, the CHECK error ends it,
\* and once ended it never moves or accepts again.
C13_BadStatusIsFatal ==
    /\ [](pc = "free" => processStatus = "exit0")
    /\ [](exitError = "AssertError" => pc = "error")
    /\ [][(pc = "checkStatus" /\ processStatus # "exit0")
              => pc' \in {"checkStatus"} \cup EndPcs]_vars
    /\ [][(pc = "checkStatus" /\ processStatus # "exit0" /\ pc' = "error"
              /\ nReload' = nReload) => exitError' = "AssertError"]_vars
    /\ [][(pc \in EndPcs) => (pc' = pc /\ nConn' = nConn)]_vars

\* C13 witness: the supervisor has ended on the CHECK of the exit status.
C13_Witness ==
    /\ pc = "error"
    /\ exitError = "AssertError"
    /\ \E c \in Conns : child[c].reaped /\ child[c].ipc \in {"exitErr", "killed"}

\* C14: the supervisor goes from fork to wait only with a child forked, and
\* from wait to the status check only with the child waited on; a failure of
\* either call ends it with ExecuteError, and once ended it never moves or
\* accepts again.
C14_ForkOrWaitFailureIsFatal ==
    /\ [](exitError = "ExecuteError" => pc = "error")
    /\ [][pc = "fork" =>
              (\/ pc' \in {"fork"} \cup EndPcs
               \/ (pc' = "wait" /\ pid' = socketSession
                      /\ child'[socketSession].ipc = "closeServer"))]_vars
    /\ [][pc = "wait" =>
              (\/ pc' \in {"wait"} \cup EndPcs
               \/ (pc' = "checkStatus" /\ child'[pid].reaped
                      /\ processStatus' \in Exited))]_vars
    /\ [][(pc \in {"fork", "wait"} /\ pc' = "error" /\ nReload' = nReload)
              => exitError' = "ExecuteError"]_vars
    /\ [][pc = "error" => (pc' = "error" /\ nConn' = nConn /\ exitError' = exitError)]_vars

\* C14 witness: the supervisor has ended on a waitpid that failed while the
\* process it forked for the latest connection had not been waited on.
C14_Witness ==
    /\ pc = "error"
    /\ exitError = "ExecuteError"
    /\ nConn > 0
    /\ child[nConn].ipc # "none"
    /\ ~child[nConn].reaped

\* C15: a forked process holds the listening socket only before its first
\* step (line 126): not when it closes the log, detaches or exits, and not as
\* a worker in session establishment or protocol processing.
C15_ChildHoldsNoListener ==
    \A c \in Conns :
        /\ child[c].ipc \in {"logClose", "forkDetach", "exit"} => ~socketServer[c]
        /\ child[c].wpc \in WorkerLive => ~socketServer[c]
        /\ socketServer[c] => (child[c].ipc = "closeServer" /\ child[c].wpc = "none")

\* C15 witness: a worker in protocol processing has outlived the supervisor
\* and no process holds the listening socket.
C15_Witness ==
    /\ pc = "terminated"
    /\ \E c \in Conns : child[c].wpc = "cmdRemote"
    /\ \A p \in Procs : ~socketServer[p]

\* C16: a reload that succeeds, at whatever position of the accept loop it
\* runs, leaves the supervisor at that position with its listening socket,
\* accepted session and forked pid as they were, and from there the supervisor
\* is at accept again (or has been ended by a signal or by an error of fork,
\* wait, the status check or a later reload); an accept that returned NULL is
\* followed by accept, with no fork.
C16_ReloadKeepsLoop ==
    /\ [][(nReload' # nReload /\ lastReload' = "ok") =>
              (/\ pc \in LoopPcs
               /\ pc' = pc
               /\ socketServer'[Sup]
               /\ socketSession' = socketSession
               /\ pid' = pid
               /\ sessHandle' = sessHandle
               /\ child' = child)]_vars
    /\ [][(pc = "checkSession" /\ socketSession = NULL)
              => pc' \in {"checkSession", "accept"} \cup EndPcs]_vars
    /\ (lastReload = "ok" /\ pc \in LoopPcs) ~> (pc = "accept" \/ pc \in EndPcs)

\* C16 witness: after a reload that ran while the supervisor waited for the
\* first fork of one connection, accept has returned the next connection.
C16_Witness ==
    /\ pc = "checkSession"
    /\ socketSession = 2
    /\ lastReload = "ok"
    /\ child[1].forkCtx # NULL
    /\ child[1].forkCtx # serverLocal[Sup].tlsServer

C18_SigTermNotAnError ==
    /\ pc \in LoopPcs => ~errorOnSigTerm
    /\ sigHup => ~errorOnSigTerm
    /\ (pc = "terminated" /\ sigHup) => exitError = "none"

\* C18 witness: a terminate signal has ended the supervisor after it accepted
\* a connection, with no error.
C18_Witness ==
    /\ pc = "terminated"
    /\ sigHup
    /\ nConn > 0
    /\ exitError = "none"

\* C19: at accept the supervisor holds no session handle; from the fork to
\* the free it holds the handle of the accepted session, and it is at the free
\* only with the first fork of that connection waited on and exited with
\* status 0.
C19_SessionFreedAfterReap ==
    /\ pc \in {"accept", "init", "setArgs", "sckServerNew", "sigTermOff", "signal"}
          => (sessHandle[Sup] = {} /\ socketSession = NULL)
    /\ pc \in {"fork", "wait", "checkStatus", "free"} => sessHandle[Sup] = {socketSession}
    /\ pc = "free" =>
          /\ pid = socketSession
          /\ child[pid].reaped
          /\ child[pid].ipc = "exit0"
          /\ processStatus = "exit0"

\* C19 witness: the supervisor is at accept with no handle while the worker
\* of the latest connection runs on its own handle of the session.
C19_Witness ==
    /\ pc = "accept"
    /\ sessHandle[Sup] = {}
    /\ nConn = 2
    /\ child[2].reaped
    /\ child[2].wpc \in WorkerLive
    /\ sessHandle[2] = {2}

\* C20: cmdServerSigHup is installed only with the arguments of cmdServer
\* stored in serverLocal, every reload runs with them stored, and once stored
\* they are never changed.
C20_ReloadUsesStartupArgs ==
    /\ [](sigHup => (serverLocal[Sup].argList = ArgList /\ serverLocal[Sup].argListSize = 1))
    /\ [][nReload' # nReload =>
              (serverLocal[Sup].argList = ArgList /\ serverLocal[Sup].argListSize = 1)]_vars
    /\ [][serverLocal[Sup].argList # NULL =>
              (/\ serverLocal'[Sup].argList = serverLocal[Sup].argList
               /\ serverLocal'[Sup].argListSize = serverLocal[Sup].argListSize)]_vars

\* C20 witness: two reloads have run and the stored arguments are those of
\* cmdServer.
C20_Witness ==
    /\ nReload = 2
    /\ lastReload = "ok"
    /\ pc \in LoopPcs
    /\ serverLocal[Sup].argList = ArgList

====
